---- MODULE Spec2Model ----
(***************************************************************************)
(* PyLab Homework Leaderboard.                                             *)
(*                                                                         *)
(* Two programs are modelled:                                              *)
(*   - etl/transform.py, the batch pipeline                                *)
(*       load_all_csv -> clean_data -> remove_duplicates ->                *)
(*       build_leaderboard                                                 *)
(*     (specification Spec; SpecBuild applies build_leaderboard to an      *)
(*     arbitrary frame);                                                   *)
(*   - app/app_csv.py, the student profile section of the dashboard:       *)
(*       get_student_lecture_rows, build_solid_bar, lectures_for_report,   *)
(*       generate_student_report_png, generate_student_report_pdf          *)
(*     (specification SpecReport).                                         *)
(*                                                                         *)
(* Text cells are sequences of one-character strings, so that str.strip    *)
(* and pd.to_numeric are computed and not assumed.                         *)
(***************************************************************************)
EXTENDS Integers, Sequences, FiniteSets, TLC

VARIABLES
    \* ---- etl/transform.py
    pc,            \* position of the module-level script
    files,         \* the .csv files of INPUT_DIR in os.listdir order; each a sequence of raw rows
    df_raw,        \* frame returned by load_all_csv (clean_data then mutates it in place)
    df_clean,      \* frame returned by clean_data
    df_unique,     \* frame returned by remove_duplicates
    leaderboard,   \* frame returned by build_leaderboard
    \* ---- app/app_csv.py
    rpc,           \* position inside the "search student" section
    df_lectures,   \* results_by_lecture.csv as loaded: [columns, rows]
    username,      \* the selected student
    lectures_passed,
    student_lectures,
    bars,          \* on-screen bars, one per row of student_lectures
    lectures_for_report,
    png_y,         \* vertical cursor of generate_student_report_png
    png_rows,      \* rows drawn on the PNG canvas so far
    pdf_y,         \* vertical cursor of generate_student_report_pdf
    pdf_i,         \* number of rows the PDF loop has consumed
    pdf_page,      \* number of the page being drawn on (1-based)
    pdf_pages,     \* pages emitted by showPage so far
    pdf_rows       \* rows drawn on the PDF so far

etl_vars == <<pc, files, df_raw, df_clean, df_unique, leaderboard>>
app_vars == <<rpc, df_lectures, username, lectures_passed, student_lectures, bars,
              lectures_for_report, png_y, png_rows, pdf_y, pdf_i, pdf_page,
              pdf_pages, pdf_rows>>
vars == <<etl_vars, app_vars>>

----------------------------------------------------------------------------
(* Bounds *)

MaxFiles == 2
MaxRows == 3
MaxLectures == 61

----------------------------------------------------------------------------
(* Generic helpers *)

Range(s) == {s[i] : i \in DOMAIN s}

Max2(a, b) == IF a >= b THEN a ELSE b
Min2(a, b) == IF a <= b THEN a ELSE b

\* The subsequence of s at the indices in keep, in order.
RECURSIVE TakeIdx(_, _, _)
TakeIdx(s, keep, i) ==
    IF i > Len(s) THEN <<>>
    ELSE IF i \in keep THEN <<s[i]>> \o TakeIdx(s, keep, i + 1)
    ELSE TakeIdx(s, keep, i + 1)

----------------------------------------------------------------------------
(* Text cells *)

\* Missing value (numpy.nan) produced by errors="coerce"; outside every number
\* a cell of the model can hold.
NaN == -1000000

DigitChars == {"0", "1", "2", "3", "4", "5", "6", "7", "8", "9"}

DigitVal(c) ==
    CASE c = "0" -> 0 [] c = "1" -> 1 [] c = "2" -> 2 [] c = "3" -> 3
      [] c = "4" -> 4 [] c = "5" -> 5 [] c = "6" -> 6 [] c = "7" -> 7
      [] c = "8" -> 8 [] c = "9" -> 9

RECURSIVE DecimalValue(_)
DecimalValue(s) ==
    IF Len(s) = 0 THEN 0
    ELSE 10 * DecimalValue(SubSeq(s, 1, Len(s) - 1)) + DigitVal(s[Len(s)])

AllDigits(s) == Len(s) > 0 /\ \A i \in 1..Len(s) : s[i] \in DigitChars

\* pd.to_numeric(..., errors="coerce") on one cell: an optionally signed decimal
\* integer parses, anything else becomes NaN.
to_numeric(s) ==
    IF AllDigits(s) THEN DecimalValue(s)
    ELSE IF Len(s) > 1 /\ s[1] = "-" /\ AllDigits(Tail(s)) THEN 0 - DecimalValue(Tail(s))
    ELSE NaN

RECURSIVE lstrip(_)
lstrip(s) == IF Len(s) > 0 /\ s[1] = " " THEN lstrip(Tail(s)) ELSE s

RECURSIVE rstrip(_)
rstrip(s) ==
    IF Len(s) > 0 /\ s[Len(s)] = " " THEN rstrip(SubSeq(s, 1, Len(s) - 1)) ELSE s

\* str.strip()
strip(s) == rstrip(lstrip(s))

\* Code point order of the characters the model uses.
Ord(c) == CASE c = " " -> 32 [] c = "-" -> 45 [] c = "a" -> 97 [] c = "b" -> 98
            [] c = "x" -> 120 [] OTHER -> 48 + DigitVal(c)

\* Python's str "<".
RECURSIVE StrLess(_, _)
StrLess(s, t) ==
    IF Len(t) = 0 THEN FALSE
    ELSE IF Len(s) = 0 THEN TRUE
    ELSE IF s[1] # t[1] THEN Ord(s[1]) < Ord(t[1])
    ELSE StrLess(Tail(s), Tail(t))

----------------------------------------------------------------------------
(* etl/transform.py: inputs *)

a == <<"a">>
a_lead == <<" ", "a">>
b_trail == <<"b", " ">>
blank == <<" ">>

RawRow(u, l, s) == [username |-> u, lecture |-> l, score |-> s]

\* The rows a .csv file of the model may hold.
RawRows ==
    { RawRow(a, <<"1">>, <<"5">>),
      RawRow(a, <<"1">>, <<"1", "0">>),
      RawRow(a_lead, <<"2">>, <<"5">>),
      RawRow(b_trail, <<"1">>, <<"1", "0">>),
      RawRow(b_trail, <<"x">>, <<"5">>),
      RawRow(a, <<"2">>, <<"x">>),
      RawRow(blank, <<"1">>, <<"5">>) }

RowSeqs == UNION { [1..n -> RawRows] : n \in 0..MaxRows }

RECURSIVE SumSizes(_, _)
SumSizes(sz, i) == IF i = 0 THEN 0 ELSE sz[i] + SumSizes(sz, i - 1)

\* rows split into the files whose sizes are sz.
SplitFiles(rows, sz) ==
    [f \in 1..Len(sz) |->
        SubSeq(rows, SumSizes(sz, f - 1) + 1, SumSizes(sz, f))]

FileSets ==
    { SplitFiles(rows, sz) :
        <<rows, sz>> \in
            { rs \in RowSeqs \X UNION { [1..nf -> 0..MaxRows] : nf \in 0..MaxFiles } :
                SumSizes(rs[2], Len(rs[2])) = Len(rs[1]) } }

----------------------------------------------------------------------------
(* etl/transform.py: functions *)

RECURSIVE concat(_, _)
\* pd.concat(dfs, ignore_index=True) of the files from f on, each row tagged
\* with its source_file.
concat(fs, f) ==
    IF f > Len(fs) THEN <<>>
    ELSE [i \in 1..Len(fs[f]) |->
            [username |-> fs[f][i].username, lecture |-> fs[f][i].lecture,
             score |-> fs[f][i].score, source_file |-> f]]
         \o concat(fs, f + 1)

clean_data(df) ==
    [i \in 1..Len(df) |->
        [username |-> strip(df[i].username),
         lecture |-> to_numeric(df[i].lecture),
         score |-> to_numeric(df[i].score),
         source_file |-> df[i].source_file]]

DedupKey(r) == <<r.username, r.lecture>>

\* DataFrame.duplicated(keep="last"): walking from the last row to the first, a
\* row is kept when its key has not been seen.
RECURSIVE kept_last(_, _, _)
kept_last(df, i, seen) ==
    IF i = 0 THEN {}
    ELSE IF DedupKey(df[i]) \in seen THEN kept_last(df, i - 1, seen)
    ELSE {i} \cup kept_last(df, i - 1, seen \cup {DedupKey(df[i])})

\* keep="first": the same walk from the first row to the last.
RECURSIVE kept_first(_, _, _)
kept_first(df, i, seen) ==
    IF i > Len(df) THEN {}
    ELSE IF DedupKey(df[i]) \in seen THEN kept_first(df, i + 1, seen)
    ELSE {i} \cup kept_first(df, i + 1, seen \cup {DedupKey(df[i])})

remove_duplicates_keep_first(df) == TakeIdx(df, kept_first(df, 1, {}), 1)

remove_duplicates(df) == TakeIdx(df, kept_last(df, Len(df), {}), 1)

\* Group keys in groupby's order (sort=True): ascending.
RECURSIVE sorted_keys(_)
sorted_keys(S) ==
    IF S = {} THEN <<>>
    ELSE LET m == CHOOSE x \in S : \A y \in S \ {x} : StrLess(x, y)
         IN <<m>> \o sorted_keys(S \ {m})

\* ("lecture", "count"): rows of the group whose lecture is not missing.
RECURSIVE agg_count(_, _, _)
agg_count(df, u, i) ==
    IF i > Len(df) THEN 0
    ELSE (IF df[i].username = u /\ df[i].lecture # NaN THEN 1 ELSE 0)
         + agg_count(df, u, i + 1)

\* ("lecture", "nunique"): distinct lecture values of the group, missing ones
\* not counted (dropna=True).
RECURSIVE agg_nunique_seen(_, _, _, _)
agg_nunique_seen(df, u, i, seen) ==
    IF i > Len(df) THEN Cardinality(seen)
    ELSE IF df[i].username = u /\ df[i].lecture # NaN
         THEN agg_nunique_seen(df, u, i + 1, seen \cup {df[i].lecture})
         ELSE agg_nunique_seen(df, u, i + 1, seen)

agg_nunique_as_count(df, u) == agg_count(df, u, 1)

agg_nunique(df, u) == agg_nunique_seen(df, u, 1, {})

\* ("score", "sum"): missing scores are skipped (skipna=True).
RECURSIVE agg_sum_from(_, _, _)
agg_sum_from(df, u, i) ==
    IF i > Len(df) THEN 0
    ELSE (IF df[i].username = u /\ df[i].score # NaN THEN df[i].score ELSE 0)
         + agg_sum_from(df, u, i + 1)

agg_sum(df, u) == agg_sum_from(df, u, 1)

\* df.groupby("username").agg(...).reset_index()
groupby_agg(df) ==
    LET keys == sorted_keys({df[i].username : i \in 1..Len(df)})
    IN [k \in 1..Len(keys) |->
          [username |-> keys[k],
           lectures |-> agg_nunique(df, keys[k]),
           total_score |-> agg_sum(df, keys[k])]]

Perms(n) == { p \in [1..n -> 1..n] : \A i, j \in 1..n : i # j => p[i] # p[j] }

\* ascending=True
sort_values_ascending(g) ==
    { p \in Perms(Len(g)) :
        \A i, j \in 1..Len(g) : i < j => g[p[i]].total_score <= g[p[j]].total_score }

\* sort_values("total_score", ascending=False) with the default
\* kind="quicksort", which is not stable: every descending order of the rows
\* is a possible result, whatever the order of the rows that tie.
sort_values(g) ==
    { p \in Perms(Len(g)) :
        \A i, j \in 1..Len(g) : i < j => g[p[i]].total_score >= g[p[j]].total_score }

\* The frames build_leaderboard may return for df.
build_leaderboard(df) ==
    LET g == groupby_agg(df)
    IN { [i \in 1..Len(g) |->
            [rating |-> i,
             username |-> g[p[i]].username,
             lectures |-> g[p[i]].lectures,
             total_score |-> g[p[i]].total_score]] : p \in sort_values(g) }

----------------------------------------------------------------------------
(* etl/transform.py: the script *)

AppIdle ==
    /\ rpc = "off"
    /\ df_lectures = [columns |-> {}, rows |-> <<>>]
    /\ username = ""
    /\ lectures_passed = 0
    /\ student_lectures = <<>>
    /\ bars = <<>>
    /\ lectures_for_report = <<>>
    /\ png_y = 0
    /\ png_rows = <<>>
    /\ pdf_y = 0
    /\ pdf_i = 0
    /\ pdf_page = 0
    /\ pdf_pages = 0
    /\ pdf_rows = <<>>

Init ==
    /\ pc = "load"
    /\ files \in FileSets
    /\ df_raw = <<>>
    /\ df_clean = <<>>
    /\ df_unique = <<>>
    /\ leaderboard = <<>>
    /\ AppIdle

\* df_raw = load_all_csv(); pd.concat raises ValueError on an empty list.
Load ==
    /\ pc = "load"
    /\ \/ /\ Len(files) = 0
          /\ pc' = "error"
          /\ UNCHANGED df_raw
       \/ /\ Len(files) > 0
          /\ df_raw' = concat(files, 1)
          /\ pc' = "clean"
    /\ UNCHANGED <<files, df_clean, df_unique, leaderboard, app_vars>>

\* df_clean = clean_data(df_raw): the frame is changed in place and returned.
Clean ==
    /\ pc = "clean"
    /\ df_raw' = clean_data(df_raw)
    /\ df_clean' = clean_data(df_raw)
    /\ pc' = "dedup"
    /\ UNCHANGED <<files, df_unique, leaderboard, app_vars>>

\* df_unique = remove_duplicates(df_clean)
Dedup ==
    /\ pc = "dedup"
    /\ df_unique' = remove_duplicates(df_clean)
    /\ pc' = "build"
    /\ UNCHANGED <<files, df_raw, df_clean, leaderboard, app_vars>>

\* leaderboard = build_leaderboard(df_unique), then printed and saved.
Build ==
    /\ pc = "build"
    /\ leaderboard' \in build_leaderboard(df_unique)
    /\ pc' = "done"
    /\ UNCHANGED <<files, df_raw, df_clean, df_unique, app_vars>>

Next == Load \/ Clean \/ Dedup \/ Build

Spec == Init /\ [][Next]_vars

\* build_leaderboard applied to any frame of cleaned rows, deduplicated or not.
CleanRowSeqs == { clean_data(concat(<<rows>>, 1)) : rows \in RowSeqs }

InitBuild ==
    /\ pc = "build"
    /\ files = <<>>
    /\ df_raw = <<>>
    /\ df_clean = <<>>
    /\ df_unique \in CleanRowSeqs
    /\ leaderboard = <<>>
    /\ AppIdle

SpecBuild == InitBuild /\ [][Build]_vars

----------------------------------------------------------------------------
(* app/app_csv.py: inputs *)

\* The decimal numeral of n, as read_csv finds it in the file.
RECURSIVE Numeral(_)
Numeral(n) ==
    IF n < 0 THEN <<"-">> \o Numeral(0 - n)
    ELSE IF n < 10 THEN <<CHOOSE c \in DigitChars : DigitVal(c) = n>>
    ELSE Numeral(n \div 10) \o Numeral(n % 10)

\* Score of the first lecture of the selected student; lecture l has score
\* base + l - 1, so that the scores run through -10..110.
ScoreBases == {-10, 50}

Needed == {"username", "lecture", "score"}

DetailRow(u, l, s) == [username |-> u, lecture |-> l, score |-> s]

\* A results_by_lecture.csv with n rows of "alice" in descending lecture order,
\* after a row of "bob", and followed (junk) by a row of "alice" whose score is
\* not a number.
DetailRows(n, base, junk) ==
    <<DetailRow("bob", Numeral(1), Numeral(77))>>
    \o [i \in 1..n |->
          DetailRow("alice", Numeral(n + 1 - i), Numeral(base + n - i))]
    \o (IF junk THEN <<DetailRow("alice", Numeral(7), <<"x">>)>> ELSE <<>>)

----------------------------------------------------------------------------
(* app/app_csv.py: functions *)

\* DataFrame.empty
IsEmptyFrame(df) == df.columns = {} \/ Len(df.rows) = 0

\* sort_values("lecture"): each row goes to the position given by the number
\* of rows that sort before it. Rows of equal lecture are kept in file order;
\* the files of the model hold no two rows of one student with the same
\* lecture, so the order of ties does not arise.
sort_by_lecture(rows) ==
    LET before(j) == {k \in 1..Len(rows) :
                         \/ rows[k].lecture < rows[j].lecture
                         \/ rows[k].lecture = rows[j].lecture /\ k < j}
    IN [i \in 1..Len(rows) |->
           rows[CHOOSE j \in 1..Len(rows) : Cardinality(before(j)) = i - 1]]

NotNaRow(r) == r.lecture # NaN /\ r.score # NaN

\* The rows of a DataFrame; pd.DataFrame() has none.
get_student_lecture_rows(df, u) ==
    IF IsEmptyFrame(df) THEN <<>>
    ELSE IF ~(Needed \subseteq df.columns) THEN <<>>
    ELSE LET out == SelectSeq(df.rows, LAMBDA r : r.username = u)
             num == [i \in 1..Len(out) |->
                        [username |-> out[i].username,
                         lecture |-> to_numeric(out[i].lecture),
                         score |-> to_numeric(out[i].score)]]
         IN sort_by_lecture(SelectSeq(num, NotNaRow))

\* Python's round() of the fraction num / den (den > 0): to the nearest
\* integer, a half to the even neighbour.
round_half_even(num, den) ==
    LET q == num \div den
        r == num % den
    IN IF 2 * r < den THEN q
       ELSE IF 2 * r > den THEN q + 1
       ELSE IF q % 2 = 0 THEN q ELSE q + 1

\* int() of the fraction num / den for num >= 0.
int_trunc(num, den) == num \div den

\* build_solid_bar with int(...) in place of round(...).
build_solid_bar_truncated(score, total_blocks) ==
    LET sc == Max2(0, Min2(100, score))
        filled == int_trunc(sc * total_blocks, 100)
    IN [score |-> score, filled |-> filled, empty |-> total_blocks - filled]

\* The numbers of filled and of empty blocks of the returned markup.
build_solid_bar(score, total_blocks) ==
    LET sc == Max2(0, Min2(100, score))
        filled == round_half_even(sc * total_blocks, 100)
    IN [score |-> score, filled |-> filled, empty |-> total_blocks - filled]

BAR_BLOCKS == 34

\* range(lectures_passed) placeholders, without max(..., 1).
lectures_for_report_no_max(sl, lp) ==
    IF Len(sl) = 0 THEN [i \in 1..lp |-> [lecture |-> i, score |-> 0]]
    ELSE sl

\* "Use lecture rows if available; otherwise create placeholders"
lectures_for_report_of(sl, lp) ==
    IF Len(sl) = 0
    THEN [i \in 1..Max2(lp, 1) |-> [lecture |-> i, score |-> 0]]
    ELSE sl

\* generate_student_report_png
png_W == 850
png_H == 1200
png_y0 == 50
png_header_h == 55 + 30 + 30 + 50 + 35
png_bar_w == 520
png_bar_h == 18
png_row_h == 42

\* One pass of the PNG loop for row r with the cursor at y: what is drawn.
png_row(r, y) ==
    LET score == Max2(0, Min2(100, r.score))
    IN [lecture |-> r.lecture, score |-> score, y |-> y,
        filled_w |-> int_trunc(png_bar_w * score, 100)]

\* generate_student_report_pdf. Lengths along the page are in units of 1/127
\* point, in which the A4 height 297 mm = 297 * 72 / 25.4 pt is the integer
\* 106920.
PtUnit == 127
page_h == 106920
pdf_margin == 70 * PtUnit
pdf_header_h == (30 + 35 + 18) * PtUnit
pdf_bar_w == 320
pdf_bar_h == 10 * PtUnit
pdf_row_h == 24 * PtUnit

\* One pass of the PDF loop for row r with the cursor at y on page p. The
\* filled width bar_w * (score / 100) is not rounded: it is kept in hundredths
\* of a point.
pdf_row(r, y, p) ==
    LET score == Max2(0, Min2(100, r.score))
    IN [lecture |-> r.lecture, score |-> score, y |-> y, page |-> p,
        filled_w_x100 |-> pdf_bar_w * score]

\* A break that waits for the cursor to leave the page.
pdf_new_page_below_page(y) == y < 0

\* "if y < 70", tested after the cursor has moved down one row.
pdf_new_page(y) == y < pdf_margin

----------------------------------------------------------------------------
(* app/app_csv.py: the student profile section *)

EtlIdle ==
    /\ pc = "off"
    /\ files = <<>>
    /\ df_raw = <<>>
    /\ df_clean = <<>>
    /\ df_unique = <<>>
    /\ leaderboard = <<>>

\* The state when a student has been found in the leaderboard. lectures_passed
\* is the student's "lectures" cell of leaderboard.csv; when the detail file
\* has rows of the student it is taken equal to their number (it then only
\* appears in the header text).
InitReport ==
    /\ EtlIdle
    /\ rpc = "select"
    /\ username = "alice"
    /\ \E n \in 0..MaxLectures, lp \in 0..MaxLectures :
          /\ lectures_passed = lp
          /\ \/ /\ n = 0
                /\ df_lectures = [columns |-> {}, rows |-> <<>>]
             \/ /\ n = 0
                /\ df_lectures =
                      [columns |-> {"username", "lecture"},
                       rows |-> <<[username |-> "alice", lecture |-> Numeral(1)]>>]
             \/ /\ n = 0 \/ lp = n
                /\ \E base \in ScoreBases, junk \in BOOLEAN :
                      df_lectures = [columns |-> Needed,
                                     rows |-> DetailRows(n, base, junk)]
    /\ student_lectures = <<>>
    /\ bars = <<>>
    /\ lectures_for_report = <<>>
    /\ png_y = 0
    /\ png_rows = <<>>
    /\ pdf_y = 0
    /\ pdf_i = 0
    /\ pdf_page = 0
    /\ pdf_pages = 0
    /\ pdf_rows = <<>>

\* student_lectures = get_student_lecture_rows(df_lectures, username), then one
\* on-screen bar per row (none when it is empty).
Select ==
    /\ rpc = "select"
    /\ student_lectures' = get_student_lecture_rows(df_lectures, username)
    /\ bars' = [i \in 1..Len(student_lectures') |->
                   build_solid_bar(student_lectures'[i].score, BAR_BLOCKS)]
    /\ rpc' = "prepare"
    /\ UNCHANGED <<etl_vars, df_lectures, username, lectures_passed,
                   lectures_for_report, png_y, png_rows, pdf_y, pdf_i, pdf_page,
                   pdf_pages, pdf_rows>>

Prepare ==
    /\ rpc = "prepare"
    /\ lectures_for_report' = lectures_for_report_of(student_lectures, lectures_passed)
    /\ rpc' = "png_start"
    /\ UNCHANGED <<etl_vars, df_lectures, username, lectures_passed, student_lectures,
                   bars, png_y, png_rows, pdf_y, pdf_i, pdf_page, pdf_pages, pdf_rows>>

\* generate_student_report_png up to the loop: canvas and header block.
PngStart ==
    /\ rpc = "png_start"
    /\ png_y' = png_y0 + png_header_h
    /\ png_rows' = <<>>
    /\ rpc' = "png_loop"
    /\ UNCHANGED <<etl_vars, df_lectures, username, lectures_passed, student_lectures,
                   bars, lectures_for_report, pdf_y, pdf_i, pdf_page, pdf_pages,
                   pdf_rows>>

\* One iteration of "for _, row in lectures_df.iterrows()".
PngRow ==
    /\ rpc = "png_loop"
    /\ Len(png_rows) < Len(lectures_for_report)
    /\ png_rows' = Append(png_rows,
                          png_row(lectures_for_report[Len(png_rows) + 1], png_y))
    /\ png_y' = png_y + png_row_h
    /\ UNCHANGED <<etl_vars, rpc, df_lectures, username, lectures_passed,
                   student_lectures, bars, lectures_for_report, pdf_y, pdf_i,
                   pdf_page, pdf_pages, pdf_rows>>

\* img.save(buf, format="PNG")
PngSave ==
    /\ rpc = "png_loop"
    /\ Len(png_rows) = Len(lectures_for_report)
    /\ rpc' = "pdf_start"
    /\ UNCHANGED <<etl_vars, df_lectures, username, lectures_passed, student_lectures,
                   bars, lectures_for_report, png_y, png_rows, pdf_y, pdf_i,
                   pdf_page, pdf_pages, pdf_rows>>

\* generate_student_report_pdf up to the loop: first page and header block.
PdfStart ==
    /\ rpc = "pdf_start"
    /\ pdf_y' = page_h - pdf_margin - pdf_header_h
    /\ pdf_i' = 0
    /\ pdf_page' = 1
    /\ pdf_pages' = 0
    /\ pdf_rows' = <<>>
    /\ rpc' = "pdf_loop"
    /\ UNCHANGED <<etl_vars, df_lectures, username, lectures_passed, student_lectures,
                   bars, lectures_for_report, png_y, png_rows>>

\* One iteration of "for _, r in lectures_df.iterrows()": the row is drawn at
\* the cursor, the cursor moves down, and a cursor below the margin ends the
\* page (showPage) and returns to the top margin.
PdfRow ==
    /\ rpc = "pdf_loop"
    /\ pdf_i < Len(lectures_for_report)
    /\ pdf_i' = pdf_i + 1
    /\ pdf_rows' = Append(pdf_rows,
                          pdf_row(lectures_for_report[pdf_i + 1], pdf_y, pdf_page))
    /\ IF pdf_new_page(pdf_y - pdf_row_h)
       THEN /\ pdf_pages' = pdf_pages + 1
            /\ pdf_page' = pdf_page + 1
            /\ pdf_y' = page_h - pdf_margin
       ELSE /\ pdf_y' = pdf_y - pdf_row_h
            /\ UNCHANGED <<pdf_page, pdf_pages>>
    /\ UNCHANGED <<etl_vars, rpc, df_lectures, username, lectures_passed,
                   student_lectures, bars, lectures_for_report, png_y, png_rows>>

\* c.showPage(); c.save()
PdfSave ==
    /\ rpc = "pdf_loop"
    /\ pdf_i = Len(lectures_for_report)
    /\ pdf_pages' = pdf_pages + 1
    /\ rpc' = "done"
    /\ UNCHANGED <<etl_vars, df_lectures, username, lectures_passed, student_lectures,
                   bars, lectures_for_report, png_y, png_rows, pdf_y, pdf_i,
                   pdf_page, pdf_rows>>

NextReport ==
    Select \/ Prepare \/ PngStart \/ PngRow \/ PngSave \/ PdfStart \/ PdfRow \/ PdfSave

SpecReport == InitReport /\ [][NextReport]_vars

----------------------------------------------------------------------------
(* Properties of the pipeline *)

Keys(df) == {DedupKey(df[i]) : i \in 1..Len(df)}

Usernames(df) == {df[i].username : i \in 1..Len(df)}

\* The index of the last row of df carrying key k.
LastIndexOf(df, k) ==
    CHOOSE i \in 1..Len(df) :
        /\ DedupKey(df[i]) = k
        /\ \A j \in (i + 1)..Len(df) : DedupKey(df[j]) # k

ScoreOrZero(r) == IF r.score = NaN THEN 0 ELSE r.score

\* Sum, over the keys in K, of the score of the last row of df with that key.
RECURSIVE SumLastScores(_, _)
SumLastScores(df, K) ==
    IF K = {} THEN 0
    ELSE LET k == CHOOSE x \in K : TRUE
         IN ScoreOrZero(df[LastIndexOf(df, k)]) + SumLastScores(df, K \ {k})

\* Sum of the scores of the rows of df at the indices in I.
RECURSIVE SumScoresAt(_, _)
SumScoresAt(df, I) ==
    IF I = {} THEN 0
    ELSE LET i == CHOOSE x \in I : TRUE
         IN ScoreOrZero(df[i]) + SumScoresAt(df, I \ {i})

RowsOf(df, u) == {i \in 1..Len(df) : df[i].username = u}

\* C1: remove_duplicates returns exactly one record per distinct
\* (username, lecture) pair of its input, namely the last input record carrying
\* that pair, the survivors in input order; and the total_score of every
\* leaderboard entry is the sum of these last-ingested scores of its username.
C1_LastWins ==
    /\ pc \in {"build", "done"} =>
        /\ Keys(df_unique) = Keys(df_clean)
        /\ \A k \in Keys(df_clean) :
              /\ Cardinality({j \in 1..Len(df_unique) : DedupKey(df_unique[j]) = k}) = 1
              /\ \E j \in 1..Len(df_unique) :
                    df_unique[j] = df_clean[LastIndexOf(df_clean, k)]
        /\ \A i, j \in 1..Len(df_unique) : i < j =>
              LastIndexOf(df_clean, DedupKey(df_unique[i]))
                  < LastIndexOf(df_clean, DedupKey(df_unique[j]))
    /\ pc = "done" =>
        \A e \in Range(leaderboard) :
            e.total_score =
                SumLastScores(df_clean, {k \in Keys(df_clean) : k[1] = e.username})

\* Two records share (username, lecture) with different scores and the
\* leaderboard has been built.
C1_Witness ==
    /\ pc = "done"
    /\ \E i, j \in 1..Len(df_clean) :
          /\ i < j
          /\ DedupKey(df_clean[i]) = DedupKey(df_clean[j])
          /\ df_clean[i].score # NaN
          /\ df_clean[j].score # NaN
          /\ df_clean[i].score # df_clean[j].score

\* C2: build_leaderboard returns exactly one entry per distinct username of its
\* input; total_score is the sum of the (non-missing) scores of that username's
\* records and lectures the number of distinct (non-missing) lecture values
\* among them, whether or not the input was deduplicated.
C2_GroupTotals ==
    pc = "done" =>
        /\ {e.username : e \in Range(leaderboard)} = Usernames(df_unique)
        /\ Len(leaderboard) = Cardinality(Usernames(df_unique))
        /\ \A e \in Range(leaderboard) :
              /\ e.total_score = SumScoresAt(df_unique, RowsOf(df_unique, e.username))
              /\ e.lectures =
                    Cardinality({df_unique[i].lecture : i \in RowsOf(df_unique, e.username)}
                                \ {NaN})

\* A leaderboard built from a frame in which one username has two rows for the
\* same lecture (deduplication bypassed) and another username is present.
C2_Witness ==
    /\ pc = "done"
    /\ Len(leaderboard) >= 2
    /\ \E i, j \in 1..Len(df_unique) :
          /\ i # j
          /\ DedupKey(df_unique[i]) = DedupKey(df_unique[j])
          /\ df_unique[i].lecture # NaN

\* C3: the rating values of the leaderboard are 1, 2, ..., N in row order and
\* total_score never increases from one row to the next.
C3_RanksContiguous ==
    pc = "done" =>
        /\ \A i \in 1..Len(leaderboard) : leaderboard[i].rating = i
        /\ \A i \in 1..(Len(leaderboard) - 1) :
              leaderboard[i].total_score >= leaderboard[i + 1].total_score

\* A leaderboard of three students whose totals are not all equal.
C3_Witness ==
    /\ pc = "done"
    /\ Len(leaderboard) = 3
    /\ leaderboard[1].total_score > leaderboard[3].total_score

\* The position of username u in the frame the grouping step produced.
GroupPos(df, u) ==
    CHOOSE k \in 1..Len(groupby_agg(df)) : groupby_agg(df)[k].username = u

\* C4: entries with equal total_score are ranked in the order in which the
\* grouping step produced their groups.
C4_TiesKeepGroupOrder ==
    pc = "done" =>
        \A i, j \in 1..Len(leaderboard) :
            (i < j /\ leaderboard[i].total_score = leaderboard[j].total_score) =>
                GroupPos(df_unique, leaderboard[i].username)
                    < GroupPos(df_unique, leaderboard[j].username)

ValidRow(r) == r.score # NaN /\ r.lecture # NaN /\ r.username # <<>>

\* C5: clean_data returns the rows whose score and lecture parse and whose
\* trimmed username is not empty, in input order, and nothing else; so no
\* leaderboard entry derives from a dropped row.
C5_InvalidRowsDropped ==
    /\ pc \in {"dedup", "build", "done"} =>
          df_clean = SelectSeq(clean_data(concat(files, 1)), ValidRow)
    /\ pc = "done" =>
          \A e \in Range(leaderboard) :
              \E r \in Range(SelectSeq(clean_data(concat(files, 1)), ValidRow)) :
                  r.username = e.username

NoInputRows == \A f \in 1..Len(files) : Len(files[f]) = 0

\* C10: on an empty input set (no input file, or files without rows) the
\* pipeline raises no error and ends with a leaderboard of zero entries.
C10_EmptyInputEmptyLeaderboard ==
    NoInputRows =>
        /\ pc # "error"
        /\ pc = "done" => leaderboard = <<>>

----------------------------------------------------------------------------
(* Properties of the student reports *)

Clamp(score) == IF score < 0 THEN 0 ELSE IF score > 100 THEN 100 ELSE score

\* f is track * c / 100 rounded to the nearest integer (a half either way).
IsRounded(f, track, c) ==
    /\ 100 * f - track * c <= 50
    /\ track * c - 100 * f <= 50

\* C6: in each of the three renderers (on-screen bar of 34 blocks, PNG bar of
\* 520, PDF bar of 320) the filled width of every bar drawn is
\* round(track_width * clamp(score, 0, 100) / 100).
C6_FilledWidthRounded ==
    /\ \A i \in 1..Len(bars) :
          IsRounded(bars[i].filled, BAR_BLOCKS, Clamp(bars[i].score))
    /\ \A i \in 1..Len(png_rows) :
          IsRounded(png_rows[i].filled_w, png_bar_w,
                    Clamp(lectures_for_report[i].score))
    /\ \A i \in 1..Len(pdf_rows) :
          \E f \in 0..pdf_bar_w :
              /\ pdf_rows[i].filled_w_x100 = 100 * f
              /\ IsRounded(f, pdf_bar_w, Clamp(lectures_for_report[i].score))

\* C6 as amended: the on-screen bar rounds 34 * c / 100 to the nearest integer
\* (a half to the even one), the PNG bar truncates 520 * c / 100 to an integer,
\* the PDF bar is 320 * c / 100 unrounded, c being clamp(score, 0, 100); every
\* filled width is less than one unit away from track * c / 100, score 0 (or
\* less) gives 0, score 100 (or more) the full track and score 50 exactly half
\* of it.
C6_FilledWidthByRenderer ==
    /\ \A i \in 1..Len(bars) :
          LET c == Clamp(bars[i].score)
              f == bars[i].filled
          IN /\ IsRounded(f, BAR_BLOCKS, c)
             /\ (100 * f - BAR_BLOCKS * c = 50 \/ BAR_BLOCKS * c - 100 * f = 50)
                    => f % 2 = 0
             /\ bars[i].empty = BAR_BLOCKS - f
             /\ c = 0 => f = 0
             /\ c = 100 => f = BAR_BLOCKS
             /\ c = 50 => 2 * f = BAR_BLOCKS
    /\ \A i \in 1..Len(png_rows) :
          LET c == Clamp(lectures_for_report[i].score)
              f == png_rows[i].filled_w
          IN /\ png_rows[i].score = c
             /\ 100 * f <= png_bar_w * c
             /\ png_bar_w * c < 100 * (f + 1)
             /\ c = 0 => f = 0
             /\ c = 100 => f = png_bar_w
             /\ c = 50 => 2 * f = png_bar_w
    /\ \A i \in 1..Len(pdf_rows) :
          LET c == Clamp(lectures_for_report[i].score)
              f100 == pdf_rows[i].filled_w_x100
          IN /\ pdf_rows[i].score = c
             /\ f100 = pdf_bar_w * c
             /\ c = 0 => f100 = 0
             /\ c = 100 => f100 = 100 * pdf_bar_w
             /\ c = 50 => 2 * f100 = 100 * pdf_bar_w

\* All three renderers have drawn bars for scores below 0, above 100, 0, 50 and
\* 100, one whose proportional width is a half (25) and one it is not (3).
C6_Witness ==
    /\ rpc = "done"
    /\ Len(bars) = MaxLectures
    /\ Len(png_rows) = MaxLectures
    /\ Len(pdf_rows) = MaxLectures
    /\ {-10, 0, 3, 25, 50} \subseteq {bars[i].score : i \in 1..Len(bars)}

\* The same for the upper half of the score range.
C6_WitnessHigh ==
    /\ rpc = "done"
    /\ Len(pdf_rows) = MaxLectures
    /\ {75, 100, 110} \subseteq {bars[i].score : i \in 1..Len(bars)}

\* The first page takes row k (1-based) when its cursor is not below the
\* bottom margin.
FitsFirstPage(k) ==
    page_h - pdf_margin - pdf_header_h - (k - 1) * pdf_row_h >= pdf_margin

\* C7: generate_student_report_pdf draws every row of its input exactly once,
\* in input order, on pages that never go back, each at a cursor between the
\* bottom and the top margin of its page and below the previous row of that
\* page; and an input with more rows than fit on the first page gives a
\* document of more than one page.
C7_AllRowsOnPages ==
    rpc = "done" =>
        /\ Len(pdf_rows) = Len(lectures_for_report)
        /\ \A i \in 1..Len(pdf_rows) :
              /\ pdf_rows[i].lecture = lectures_for_report[i].lecture
              /\ pdf_rows[i].score = Clamp(lectures_for_report[i].score)
              /\ pdf_rows[i].page \in 1..pdf_pages
              /\ pdf_rows[i].y >= pdf_margin
              /\ pdf_rows[i].y <= page_h - pdf_margin
              /\ pdf_rows[i].y - 2 * PtUnit + pdf_bar_h <= page_h
        /\ \A i \in 1..(Len(pdf_rows) - 1) :
              \/ pdf_rows[i + 1].page = pdf_rows[i].page + 1
              \/ /\ pdf_rows[i + 1].page = pdf_rows[i].page
                 /\ pdf_rows[i + 1].y = pdf_rows[i].y - pdf_row_h
        /\ ~FitsFirstPage(Len(lectures_for_report)) => pdf_pages > 1

\* A finished PDF whose rows, read from the detail file, run over three pages.
C7_Witness ==
    /\ rpc = "done"
    /\ Len(student_lectures) > 0
    /\ ~FitsFirstPage(Len(pdf_rows))
    /\ \E i \in 1..Len(pdf_rows) : pdf_rows[i].page = 3

\* C8: every row generate_student_report_png draws lies inside the 850 x 1200
\* canvas: its cursor y satisfies y + bar height <= 1200.
C8_RowsInsideCanvas ==
    \A i \in 1..Len(png_rows) : png_rows[i].y + png_bar_h <= png_H

NoLectureRows == student_lectures = <<>>

RowsOnPage(p) == {i \in 1..Len(pdf_rows) : pdf_rows[i].page = p}

\* C11: generate_student_report_pdf starts a new page exactly when a next row
\* remains to be drawn and would fall below the bottom margin: a page after the
\* first is begun only for a row still to come, its first row is drawn with the
\* cursor at the top margin (page height - 70), a row that follows another on
\* the same page was not below the margin, and so every page of the finished
\* document carries the header (page 1) or at least one lecture row.
C11_PageBreakOnlyForNextRow ==
    /\ rpc \in {"pdf_loop", "done"} =>
          /\ \A p \in 2..pdf_page :
                \/ RowsOnPage(p) # {}
                \/ p = pdf_page /\ pdf_i < Len(lectures_for_report)
          /\ \A i \in 1..Len(pdf_rows) :
                /\ (i > 1 /\ pdf_rows[i].page # pdf_rows[i - 1].page) =>
                      /\ pdf_rows[i].y = page_h - pdf_margin
                      /\ pdf_rows[i - 1].y - pdf_row_h < pdf_margin
                /\ (i > 1 /\ pdf_rows[i].page = pdf_rows[i - 1].page) =>
                      pdf_rows[i].y >= pdf_margin
    /\ rpc = "done" =>
          \A p \in 1..pdf_pages : p = 1 \/ RowsOnPage(p) # {}

====
